---- MODULE Spec2Model ----
(***************************************************************************)
(* Frontier Silicon integration: the config flow (config_flow.py), the     *)
(* device validation helpers (device_validation.py) and the entry          *)
(* setup/unload pair (__init__.py).                                        *)
(*                                                                         *)
(* The vendor client (afsapi) is a black box: every call to it is a        *)
(* nondeterministic choice among a returned value, an FSApiException with  *)
(* some message, and an exception of another type.  The host flow manager  *)
(* is modelled only as far as the steps use it.                            *)
(***************************************************************************)
EXTENDS Integers, Sequences, FiniteSets, TLC

\* ------------------------------------------------------------------ bounds
NumFlows == 2
MaxEntries == 2

Flows == 1 .. NumFlows

\* --------------------------------------------------------------- constants
None == "None"

FS_DOMAIN == "frontier_silicon"
CONF_HOST == "host"
CONF_PORT == "port"
CONF_NAME == "name"
CONF_PIN == "pin"
CONF_DEVICE_URL == "device_url"
CONF_USE_SESSION == "use_session"
CONF_WEBFSAPI_URL == "webfsapi_url"
DEFAULT_PIN == "1234"

\* ------------------------------------------------------------ input domains
WebfsapiUrls == {"http://1.1.1.1:80/webfsapi", "http://2.2.2.2:80/webfsapi"}
Udns == {"mock_udn"}
FriendlyNames == {"Name of the device"}
SpeakerNames == {"Speaker Name"}
Pins == {"4321", ""}
Hosts == {"1.1.1.1"}
Ports == {80}

\* Exception messages, as sequences of characters.
MsgAccessDenied ==
    <<"A","c","c","e","s","s"," ","d","e","n","i","e","d">>
MsgAccessDeniedPin ==
    <<"A","c","c","e","s","s"," ","d","e","n","i","e","d",":"," ","p","i","n">>
MsgAccessLower ==
    <<"a","c","c","e","s","s"," ","d","e","n","i","e","d">>
MsgAccess == <<"A","c","c","e","s","s">>
MsgTimeout == <<"T","i","m","e","o","u","t">>
MsgEmpty == <<>>
MsgSpaceAccessDenied == <<" ">> \o MsgAccessDenied
BaseMessages ==
    {MsgAccessDenied, MsgAccessDeniedPin, MsgAccessLower, MsgAccess,
     MsgTimeout, MsgEmpty, MsgSpaceAccessDenied}
\* Every message the validation helpers are run against: the base messages
\* and all their prefixes.
Messages ==
    UNION {{SubSeq(m, 1, n) : n \in 0 .. Len(m)} : m \in BaseMessages}

\* str.startswith
StartsWith(s, prefix) ==
    /\ Len(s) >= Len(prefix)
    /\ SubSeq(s, 1, Len(prefix)) = prefix

\* ------------------------------------------------------- the vendor client
\* One call into afsapi: kind "ok" returns value, kind "FSApiException"
\* raises the vendor's exception with message msg, kind "Exception" raises
\* an exception of any other type (ValueError in the tests).
VendorOk(v) == [kind |-> "ok", value |-> v, msg |-> MsgEmpty]
VendorFail(k, m) == [kind |-> k, value |-> None, msg |-> m]
NoCall == [kind |-> "nocall", value |-> None, msg |-> MsgEmpty]

\* The failures a flow step is run against: one vendor failure of each
\* kind that the validation helpers tell apart.
VendorFailures ==
    {VendorFail("FSApiException", MsgAccessDeniedPin),
     VendorFail("FSApiException", MsgTimeout),
     VendorFail("Exception", MsgEmpty)}
EndpointOutcomes == {VendorOk(u) : u \in WebfsapiUrls} \cup VendorFailures
FriendlyNameOutcomes == {VendorOk(n) : n \in FriendlyNames} \cup VendorFailures

\* -------------------------------------------------- device_validation.py
\* The outcome of a helper: "ok" with a value, or "raise" with the
\* exception type that leaves the helper.
Returned(v) == [kind |-> "ok", value |-> v, exc |-> None]
Raised(e) == [kind |-> "raise", value |-> None, exc |-> e]

validate_device_url(vendor) ==
    IF vendor.kind = "ok" THEN Returned(vendor.value)
    ELSE IF vendor.kind = "FSApiException" THEN Raised("CannotConnect")
    ELSE Raised("Exception")

validate_device_config_nomatch(vendor) ==
    IF vendor.kind = "ok" THEN Returned([title |-> vendor.value])
    ELSE IF vendor.kind = "FSApiException"
         THEN IF vendor.msg = MsgAccessDenied
              THEN Raised("InvalidAuth")
              ELSE Raised("CannotConnect")
    ELSE Raised("Exception")

validate_device_config(vendor) ==
    IF vendor.kind = "ok" THEN Returned([title |-> vendor.value])
    ELSE IF vendor.kind = "FSApiException"
         THEN IF StartsWith(vendor.msg, MsgAccessDenied)
              THEN Raised("InvalidAuth")
              ELSE Raised("CannotConnect")
    ELSE Raised("Exception")

\* ------------------------------------------------------------ flow results
NoData == [k \in {} |-> None]

Form(step, errs) ==
    [type |-> "form", step_id |-> step, errors |-> errs, reason |-> None,
     title |-> None, data |-> NoData, exc |-> None]
Abort(why) ==
    [type |-> "abort", step_id |-> None, errors |-> None, reason |-> why,
     title |-> None, data |-> NoData, exc |-> None]
CreateEntry(t, d) ==
    [type |-> "create_entry", step_id |-> None, errors |-> None,
     reason |-> None, title |-> t, data |-> d, exc |-> None]
Raise(e) ==
    [type |-> "raise", step_id |-> None, errors |-> None, reason |-> None,
     title |-> None, data |-> NoData, exc |-> e]
NoResult ==
    [type |-> None, step_id |-> None, errors |-> None, reason |-> None,
     title |-> None, data |-> NoData, exc |-> None]

\* ------------------------------------------------------------- step inputs
\* user_input is None, the empty dict, or a dict.
InputNone == [none |-> TRUE]
InputEmpty == [k \in {} |-> None]
IsNone(x) == "none" \in DOMAIN x

UserInputs == {[host |-> h, port |-> p] : h \in Hosts, p \in Ports}
PinInputs == {[pin |-> p] : p \in Pins}
ImportInfos ==
    {[host |-> h, port |-> p, pin |-> q, name |-> "Test name"] :
        h \in Hosts, p \in Ports, q \in Pins}
Discoveries ==
    {[ssdp_udn |-> u, ssdp_location |-> <<"http://1.1.1.1/device">>,
      speaker_name |-> n] : u \in Udns, n \in SpeakerNames}
UnignoreInputs ==
    {InputNone, InputEmpty, [other |-> "x"]}
        \cup {[unique_id |-> u] : u \in Udns}

\* f"http://{host}:{port}/device"
DeviceUrl(host, port) == <<"http://", host, ":", port, "/device">>

\* Vendor calls made by a step, in order.
CallEndpoint(device_url) ==
    [fn |-> "get_webfsapi_endpoint", url |-> device_url, pin |-> None]
CallFriendlyName(webfsapi_url, pin) ==
    [fn |-> "get_friendly_name", url |-> webfsapi_url, pin |-> pin]

\* ---------------------------------------------------- the ConfigFlow object
\* _webfsapi_url and _name are the object's fields (ConfigFlow.__init__);
\* unique_id, title_placeholder and confirm_only live in the flow context;
\* source and cur_step (the form waiting for input) are the flow manager's
\* bookkeeping.
NewFlow(src) ==
    [webfsapi_url |-> None, name |-> None, unique_id |-> None,
     title_placeholder |-> None, confirm_only |-> FALSE,
     source |-> src, cur_step |-> "init"]
IdleFlow == NewFlow(None)

\* What a step hands back: its result, the flow object as the step left
\* it, the config entries as the step left them, the vendor calls it made.
Out(res, self, ents, calls) ==
    [result |-> res, self |-> self, entries |-> ents, calls |-> calls]

\* ----------------------------------------------- host helpers the steps use
\* ConfigFlow.async_set_unique_id: with raise_on_progress, another flow in
\* progress with the same unique id aborts this one.
SetUniqueIdAborts(uid, raise_on_progress, in_progress) ==
    raise_on_progress /\ uid \in in_progress

\* ConfigFlow._abort_if_unique_id_configured
UniqueIdConfigured(ents, uid) == \E e \in ents : e.unique_id = uid

\* ... with updates={CONF_WEBFSAPI_URL: url}: the matching entry's data is
\* updated before the flow aborts.
UpdateEntries(ents, uid, url) ==
    {IF e.unique_id = uid
     THEN [e EXCEPT !.data = [k \in DOMAIN e.data |->
              IF k = CONF_WEBFSAPI_URL THEN url ELSE e.data[k]]]
     ELSE e : e \in ents}

\* ------------------------------------------------------------ config_flow.py
\* The except clauses around validate_device_url: CannotConnect, then
\* Exception.
UrlErrorCode_swapped(exc) ==
    IF exc = "CannotConnect" THEN "unknown" ELSE "cannot_connect"

UrlErrorCode(exc) ==
    IF exc = "CannotConnect" THEN "cannot_connect" ELSE "unknown"

\* The except clauses of async_step_device_config: CannotConnect,
\* InvalidAuth, then Exception.
DeviceConfigErrorCode_noauth(exc) ==
    IF exc = "CannotConnect" \/ exc = "InvalidAuth" THEN "cannot_connect"
    ELSE "unknown"

DeviceConfigErrorCode(exc) ==
    IF exc = "CannotConnect" THEN "cannot_connect"
    ELSE IF exc = "InvalidAuth" THEN "invalid_auth"
    ELSE "unknown"

create_entry(self, pin, ents, calls) ==
    IF self.name = None \/ self.webfsapi_url = None
    THEN Out(Raise("AssertionError"), self, ents, calls)
    ELSE Out(CreateEntry(self.name,
                 [webfsapi_url |-> self.webfsapi_url,
                  pin |-> IF pin = None \/ pin = "" THEN DEFAULT_PIN
                          ELSE pin]),
             self, ents, calls)

async_step_confirm_eager(self, user_input, ents, calls) ==
    create_entry(self, None, ents, calls)

async_step_confirm(self, user_input, ents, calls) ==
    IF ~IsNone(user_input)
    THEN create_entry(self, None, ents, calls)
    ELSE Out(Form("confirm", None),
             [self EXCEPT !.confirm_only = TRUE], ents, calls)

async_step_device_config(self, user_input, vendorCfg, ents, calls) ==
    IF self.webfsapi_url = None
    THEN Out(Raise("AssertionError"), self, ents, calls)
    ELSE IF IsNone(user_input)
    THEN Out(Form("device_config", None), self, ents, calls)
    ELSE
      LET r == validate_device_config(vendorCfg)
          calls2 == Append(calls,
                      CallFriendlyName(self.webfsapi_url, user_input[CONF_PIN]))
      IN IF r.kind = "raise"
         THEN Out(Form("device_config", DeviceConfigErrorCode(r.exc)),
                  self, ents, calls2)
         ELSE create_entry([self EXCEPT !.name = r.value.title],
                           user_input[CONF_PIN], ents, calls2)

async_step_device_config_if_needed_anyerr(self, show_confirm, vendorCfg, ents, calls) ==
    LET r == validate_device_config(vendorCfg)
        calls2 == Append(calls, CallFriendlyName(self.webfsapi_url, DEFAULT_PIN))
    IN IF r.kind = "ok"
       THEN LET self2 == [self EXCEPT !.name = r.value.title]
            IN IF show_confirm
               THEN async_step_confirm(self2, InputNone, ents, calls2)
               ELSE create_entry(self2, None, ents, calls2)
       ELSE async_step_device_config(self, InputNone, vendorCfg, ents, calls2)

async_step_device_config_if_needed(self, show_confirm, vendorCfg, ents, calls) ==
    LET r == validate_device_config(vendorCfg)
        calls2 == Append(calls, CallFriendlyName(self.webfsapi_url, DEFAULT_PIN))
    IN IF r.kind = "ok"
       THEN LET self2 == [self EXCEPT !.name = r.value.title]
            IN IF show_confirm
               THEN async_step_confirm(self2, InputNone, ents, calls2)
               ELSE create_entry(self2, None, ents, calls2)
       ELSE IF r.exc = "InvalidAuth"
       THEN async_step_device_config(self, InputNone, vendorCfg, ents, calls2)
       ELSE Out(Raise(r.exc), self, ents, calls2)

async_step_import_nocheck(self, import_info, vendorUrl, ents, in_progress) ==
    IF ~({CONF_HOST, CONF_PORT} \subseteq DOMAIN import_info)
    THEN Out(Raise("KeyError"), self, ents, <<>>)
    ELSE
      LET device_url == DeviceUrl(import_info[CONF_HOST], import_info[CONF_PORT])
          calls == <<CallEndpoint(device_url)>>
          r == validate_device_url(vendorUrl)
      IN IF r.kind = "raise"
         THEN Out(Abort(UrlErrorCode(r.exc)), self, ents, calls)
         ELSE create_entry([self EXCEPT !.webfsapi_url = r.value,
                                        !.unique_id = r.value,
                                        !.name = import_info[CONF_NAME]],
                           import_info[CONF_PIN], ents, calls)

async_step_import(self, import_info, vendorUrl, ents, in_progress) ==
    IF ~({CONF_HOST, CONF_PORT} \subseteq DOMAIN import_info)
    THEN Out(Raise("KeyError"), self, ents, <<>>)
    ELSE
      LET device_url == DeviceUrl(import_info[CONF_HOST], import_info[CONF_PORT])
          calls == <<CallEndpoint(device_url)>>
          r == validate_device_url(vendorUrl)
      IN IF r.kind = "raise"
         THEN Out(Abort(UrlErrorCode(r.exc)), self, ents, calls)
         ELSE
           LET self2 == [self EXCEPT !.webfsapi_url = r.value,
                                     !.unique_id = r.value]
           IN IF SetUniqueIdAborts(r.value, FALSE, in_progress)
              THEN Out(Abort("already_in_progress"), self2, ents, calls)
              ELSE IF UniqueIdConfigured(ents, r.value)
              THEN Out(Abort("already_configured"), self2, ents, calls)
              ELSE IF CONF_NAME \notin DOMAIN import_info
              THEN Out(Raise("KeyError"), self2, ents, calls)
              ELSE LET self3 == [self2 EXCEPT !.name = import_info[CONF_NAME]]
                   IN IF CONF_PIN \notin DOMAIN import_info
                      THEN Out(Raise("KeyError"), self3, ents, calls)
                      ELSE create_entry(self3, import_info[CONF_PIN], ents, calls)

async_step_user(self, user_input, vendorUrl, vendorCfg, ents, in_progress) ==
    IF IsNone(user_input)
    THEN Out(Form("user", None), self, ents, <<>>)
    ELSE
      LET device_url == DeviceUrl(user_input[CONF_HOST], user_input[CONF_PORT])
          calls == <<CallEndpoint(device_url)>>
          r == validate_device_url(vendorUrl)
      IN IF r.kind = "raise"
         THEN Out(Form("user", UrlErrorCode(r.exc)), self, ents, calls)
         ELSE
           LET self1 == [self EXCEPT !.webfsapi_url = r.value]
               self2 == [self1 EXCEPT !.unique_id = r.value]
           IN IF SetUniqueIdAborts(r.value, TRUE, in_progress)
              THEN Out(Abort("already_in_progress"), self1, ents, calls)
              ELSE IF UniqueIdConfigured(ents, r.value)
              THEN Out(Abort("already_configured"), self2, ents, calls)
              ELSE async_step_device_config_if_needed(
                       self2, FALSE, vendorCfg, ents, calls)

async_step_ssdp(self, discovery_info, vendorUrl, vendorCfg, ents, in_progress) ==
    LET device_url == discovery_info.ssdp_location
        self0 == [self EXCEPT !.title_placeholder = discovery_info.speaker_name]
        calls == <<CallEndpoint(device_url)>>
        r == validate_device_url(vendorUrl)
    IN IF r.kind = "raise"
       THEN Out(Abort(UrlErrorCode(r.exc)), self0, ents, calls)
       ELSE
         LET self1 == [self0 EXCEPT !.webfsapi_url = r.value]
             self2 == [self1 EXCEPT !.unique_id = discovery_info.ssdp_udn]
         IN IF SetUniqueIdAborts(discovery_info.ssdp_udn, TRUE, in_progress)
            THEN Out(Abort("already_in_progress"), self1, ents, calls)
            ELSE IF UniqueIdConfigured(ents, discovery_info.ssdp_udn)
            THEN Out(Abort("already_configured"), self2,
                     UpdateEntries(ents, discovery_info.ssdp_udn, r.value),
                     calls)
            ELSE async_step_device_config_if_needed(
                     self2, TRUE, vendorCfg, ents, calls)

async_step_unignore_lax(self, user_input, found, vendorUrl, vendorCfg, ents, in_progress) ==
    IF IsNone(user_input) \/ DOMAIN user_input = {}
           \/ "unique_id" \notin DOMAIN user_input
    THEN Out(Abort("unknown"), self, ents, <<>>)
    ELSE IF found = {}
    THEN Out(Abort("unknown"), self, ents, <<>>)
    ELSE async_step_ssdp(self, CHOOSE d \in found : TRUE,
                         vendorUrl, vendorCfg, ents, in_progress)

\* found: what ssdp.async_get_discovery_info_by_udn_st returns, as a set
\* (empty when no discovery is known).
async_step_unignore(self, user_input, found, vendorUrl, vendorCfg, ents, in_progress) ==
    IF IsNone(user_input) \/ DOMAIN user_input = {}
           \/ "unique_id" \notin DOMAIN user_input
    THEN Out(Abort("unknown"), self, ents, <<>>)
    ELSE IF user_input.unique_id = None \/ user_input.unique_id = ""
    THEN Out(Raise("AssertionError"), self, ents, <<>>)
    ELSE IF found = {}
    THEN Out(Abort("discovery_error"), self, ents, <<>>)
    ELSE async_step_ssdp(self, CHOOSE d \in found : TRUE,
                         vendorUrl, vendorCfg, ents, in_progress)

\* --------------------------------------------------------------- __init__.py
\* hass.data is a dict; hass.data[DOMAIN] maps entry ids to clients.
Client(webfsapi_url, pin, use_session) ==
    [webfsapi_url |-> webfsapi_url, pin |-> pin, use_session |-> use_session]

Registry(data) == IF FS_DOMAIN \in DOMAIN data THEN data[FS_DOMAIN] ELSE <<>>

DictSet(d, key, v) == [k \in DOMAIN d \cup {key} |-> IF k = key THEN v ELSE d[k]]
DictPop(d, key) == [k \in DOMAIN d \ {key} |-> d[k]]

\* ret is "True"/"False", or None with exc set when the call raises.
Ret(data, ret, exc) == [hass_data |-> data, ret |-> ret, exc |-> exc]

async_setup_entry(data, entry) ==
    IF ~({CONF_WEBFSAPI_URL, CONF_PIN, CONF_USE_SESSION}
            \subseteq DOMAIN entry.data)
    THEN Ret(data, None, "KeyError")
    ELSE LET afsapi == Client(entry.data[CONF_WEBFSAPI_URL],
                              entry.data[CONF_PIN],
                              entry.data[CONF_USE_SESSION])
         IN Ret(DictSet(data, FS_DOMAIN,
                        DictSet(Registry(data), entry.entry_id, afsapi)),
                "True", None)

async_unload_entry_always(data, entry, unload_ok) ==
    IF FS_DOMAIN \notin DOMAIN data
         \/ entry.entry_id \notin DOMAIN data[FS_DOMAIN]
    THEN Ret(data, None, "KeyError")
    ELSE Ret(DictSet(data, FS_DOMAIN,
                     DictPop(data[FS_DOMAIN], entry.entry_id)),
             IF unload_ok THEN "True" ELSE "False", None)

async_unload_entry(data, entry, unload_ok) ==
    IF unload_ok
    THEN IF FS_DOMAIN \notin DOMAIN data
              \/ entry.entry_id \notin DOMAIN data[FS_DOMAIN]
         THEN Ret(data, None, "KeyError")
         ELSE Ret(DictSet(data, FS_DOMAIN,
                          DictPop(data[FS_DOMAIN], entry.entry_id)),
                  "True", None)
    ELSE Ret(data, "False", None)


\* ============================================================ media_player.py
\* ------------------------------------------------------------------ bounds
\* The largest number of volume steps a device reports.
MaxSteps == 3

\* --------------------------------------------------------------- constants
MEDIA_TYPE_CHANNEL == "channel"
MEDIA_TYPE_PRESET == "preset"
REPEAT_MODE_OFF == "off"
STATE_PLAYING == "playing"
STATE_PAUSED == "paused"
STATE_IDLE == "idle"
STATE_OPENING == "opening"
STATE_OFF == "off"
STATE_UNAVAILABLE == "unavailable"
STATE_UNKNOWN == "unknown"

\* Optional values that are not strings: None as an integer, a list, a
\* dict and a fraction.
NoneInt == -1
NoneList == <<None>>
NoneDict == [k \in {None} |-> None]
NoneLevel == [num |-> -1, den |-> 1]

\* The device's modes and equaliser presets: label -> key.
DeviceModes == [k \in {"Internet radio", "DAB"} |->
                   IF k = "DAB" THEN "dab" ELSE "ir"]
DeviceEqualisers == [k \in {"Normal"} |-> "eq0"]

\* Exceptions a vendor call raises: afsapi.ConnectionError, which is an
\* FSApiException, and an FSApiException of another kind.
FSConnectionError == "ConnectionError"
FSApiException == "FSApiException"

\* ------------------------------------------------------------- the entity
\* AFSAPIDevice.__init__; state is MediaPlayerEntity's default.
NewDevice ==
    [available |-> TRUE, state |-> None,
     name |-> None, unique_id |-> None,
     source_list |-> NoneList, source |-> None,
     sound_mode_list |-> NoneList, sound_mode |-> None,
     media_title |-> None, media_artist |-> None, media_album_name |-> None,
     is_volume_muted |-> None, media_image_url |-> None,
     media_position |-> NoneInt, media_position_updated_at |-> None,
     shuffle |-> None, repeat |-> None,
     max_volume |-> NoneInt, volume_level |-> NoneLevel,
     modes_by_label |-> NoneDict, sound_modes_by_label |-> NoneDict]

\* Python truthiness of the cached static attributes.
FalsyStr(x) == x = None \/ x = ""
FalsyList(x) == x = NoneList \/ x = <<>>
FalsyInt(x) == x = NoneInt \/ x = 0

\* list(dict.keys()), in a fixed order
RECURSIVE Keys(_)
Keys(d) ==
    IF DOMAIN d = {} THEN <<>>
    ELSE LET x == CHOOSE y \in DOMAIN d : TRUE
         IN <<x>> \o Keys([k \in DOMAIN d \ {x} |-> d[k]])

\* " - ".join(filter(None, parts))
RECURSIVE JoinDash(_)
JoinDash(parts) ==
    IF parts = <<>> THEN ""
    ELSE IF parts[1] = None \/ parts[1] = "" THEN JoinDash(Tail(parts))
    ELSE LET rest == JoinDash(Tail(parts))
         IN IF rest = "" THEN parts[1] ELSE parts[1] \o " - " \o rest

\* ------------------------------------------------- one run of a method
\* e: the entity; calls: the vendor calls made so far, in order; raised:
\* the exception on its way out (None while running); log: the messages
\* logged; ok: the try block of async_update ended without exception.
Ctx(e) == [e |-> e, calls |-> <<>>, raised |-> None, log |-> <<>>, ok |-> FALSE]

\* The argument of a vendor call: strings, or a number, or nothing.
NoArg == [str |-> <<>>, num |-> NoneInt]
StrArg(x) == [str |-> <<x>>, num |-> NoneInt]
IntArg(n) == [str |-> <<>>, num |-> n]

\* The answers of the device during one method run.  fail_at is the
\* position of the vendor call that raises fail_kind (0: none does).
Call(ctx, fn, arg, env) ==
    LET made == [ctx EXCEPT !.calls = Append(@, [fn |-> fn, arg |-> arg])]
    IN IF Len(made.calls) = env.fail_at
       THEN [made EXCEPT !.raised = env.fail_kind]
       ELSE made

Running(ctx) == ctx.raised = None

\* lines 159-165: the state of a play status
StateOf(status) ==
    IF status = "PLAYING" THEN STATE_PLAYING
    ELSE IF status = "PAUSED" THEN STATE_PAUSED
    ELSE IF status = "STOPPED" THEN STATE_IDLE
    ELSE IF status = "LOADING" THEN STATE_OPENING
    ELSE IF status = None THEN STATE_IDLE
    ELSE STATE_UNKNOWN

\* lines 168-175: except FSConnectionError
OnConnectionError_nolatch(ctx) ==
    IF ctx.e.available
    THEN [ctx EXCEPT !.raised = None,
                     !.log = Append(@, "Could not connect"),
                     !.e.state = STATE_UNAVAILABLE]
    ELSE [ctx EXCEPT !.raised = None]

OnConnectionError(ctx) ==
    IF ctx.e.available
    THEN [ctx EXCEPT !.raised = None,
                     !.log = Append(@, "Could not connect"),
                     !.e.state = STATE_UNAVAILABLE,
                     !.e.available = FALSE]
    ELSE [ctx EXCEPT !.raised = None]

\* lines 176-183: the start of the else branch of the try
OnConnected_chatty(ctx) ==
    [ctx EXCEPT !.log = Append(@, "Reconnected"), !.e.available = TRUE]

OnConnected(ctx) ==
    IF ~ctx.e.available
    THEN [ctx EXCEPT !.log = Append(@, "Reconnected"), !.e.available = TRUE]
    ELSE ctx

\* lines 156-183: the try block, its except and the start of its else
PollStatus(ctx, env) ==
    LET c1 == IF Running(ctx) THEN Call(ctx, "get_power", NoArg, env) ELSE ctx
        c2 == IF Running(c1) /\ env.power
              THEN Call(c1, "get_play_status", NoArg, env) ELSE c1
    IN IF ~Running(ctx) THEN ctx
       ELSE IF c2.raised = FSConnectionError THEN OnConnectionError(c2)
       ELSE IF ~Running(c2) THEN c2
       ELSE OnConnected([c2 EXCEPT !.ok = TRUE,
                                   !.e.state = IF env.power
                                               THEN StateOf(env.status)
                                               ELSE STATE_OFF])

\* lines 184-185
FetchName(ctx, env) ==
    IF ~Running(ctx) \/ ~FalsyStr(ctx.e.name) THEN ctx
    ELSE LET c == Call(ctx, "get_friendly_name", NoArg, env)
         IN IF Running(c) THEN [c EXCEPT !.e.name = env.name] ELSE c

\* lines 187-191
FetchUniqueId(ctx, env) ==
    IF ~Running(ctx) \/ ~FalsyStr(ctx.e.unique_id) THEN ctx
    ELSE LET c == Call(ctx, "get_radio_id", NoArg, env)
         IN IF Running(c) THEN [c EXCEPT !.e.unique_id = env.radio_id]
            ELSE IF c.raised \in {FSApiException, FSConnectionError}
            THEN [c EXCEPT !.raised = None, !.e.unique_id = ctx.e.name]
            ELSE c

\* lines 193-201
FetchSources(ctx, env) ==
    IF ~Running(ctx) \/ ~FalsyList(ctx.e.source_list) THEN ctx
    ELSE LET c1 == Call(ctx, "get_modes", NoArg, env)
             c2 == IF Running(c1)
                   THEN [c1 EXCEPT !.e.modes_by_label = DeviceModes,
                                   !.e.source_list = Keys(DeviceModes)]
                   ELSE c1
             c3 == IF Running(c2) THEN Call(c2, "get_mode", NoArg, env) ELSE c2
         IN IF Running(c3) THEN [c3 EXCEPT !.e.source = env.mode] ELSE c3

\* lines 203-208
FetchSoundModes(ctx, env) ==
    IF ~Running(ctx) \/ ~FalsyList(ctx.e.sound_mode_list) THEN ctx
    ELSE LET c == Call(ctx, "get_equalisers", NoArg, env)
         IN IF Running(c)
            THEN [c EXCEPT !.e.sound_modes_by_label = DeviceEqualisers,
                           !.e.sound_mode_list = Keys(DeviceEqualisers)]
            ELSE c

\* lines 210-214: int(steps or 1) - 1
FetchMaxVolume_once(ctx, env) ==
    IF ~Running(ctx) \/ ctx.e.max_volume # NoneInt THEN ctx
    ELSE LET c == Call(ctx, "get_volume_steps", NoArg, env)
         IN IF Running(c)
            THEN [c EXCEPT !.e.max_volume =
                     (IF FalsyInt(env.steps) THEN 1 ELSE env.steps) - 1]
            ELSE c

FetchMaxVolume(ctx, env) ==
    IF ~Running(ctx) \/ ~FalsyInt(ctx.e.max_volume) THEN ctx
    ELSE LET c == Call(ctx, "get_volume_steps", NoArg, env)
         IN IF Running(c)
            THEN [c EXCEPT !.e.max_volume =
                     (IF FalsyInt(env.steps) THEN 1 ELSE env.steps) - 1]
            ELSE c

\* One vendor read (lines 217-236), and one assigned to an attribute.
Read(ctx, fn, env) == IF Running(ctx) THEN Call(ctx, fn, NoArg, env) ELSE ctx

Assign(ctx, attr, value) ==
    IF Running(ctx) THEN [ctx EXCEPT !.e[attr] = value] ELSE ctx

ReadInto(ctx, fn, attr, value, env) ==
    Assign(Read(ctx, fn, env), attr, value)

\* lines 241-258
ClearMedia_keepvolume(e) ==
    [e EXCEPT !.media_title = None, !.media_artist = None,
              !.media_album_name = None, !.sound_mode = None,
              !.is_volume_muted = None, !.media_image_url = None,
              !.media_position = NoneInt,
              !.media_position_updated_at = None,
              !.shuffle = None, !.repeat = None]

ClearMedia(e) ==
    [e EXCEPT !.media_title = None, !.media_artist = None,
              !.media_album_name = None, !.sound_mode = None,
              !.is_volume_muted = None, !.media_image_url = None,
              !.media_position = NoneInt,
              !.media_position_updated_at = None,
              !.shuffle = None, !.repeat = None,
              !.volume_level = NoneLevel]

\* line 239: float(volume or 0) / (self._max_volume or 1)
VolumeLevel(volume, max_volume) ==
    [num |-> IF FalsyInt(volume) THEN 0 ELSE volume,
     den |-> IF FalsyInt(max_volume) THEN 1 ELSE max_volume]

\* lines 216-258
FetchMedia(ctx, env) ==
    IF ~Running(ctx) THEN ctx
    ELSE IF ctx.e.state \in {STATE_OFF, STATE_UNAVAILABLE}
    THEN [ctx EXCEPT !.e = ClearMedia(ctx.e)]
    ELSE
     ReadInto(
      ReadInto(
       ReadInto(
        Assign(
         ReadInto(
          ReadInto(
           ReadInto(
            ReadInto(
             ReadInto(
              ReadInto(
               ReadInto(
                ReadInto(
                 Read(ctx, "get_play_name", env),
                 "get_play_text", "media_title",
                 JoinDash(<<env.play_name, env.play_text>>), env),
                "get_play_artist", "media_artist", "Artist", env),
               "get_play_album", "media_album_name", "Album", env),
              "get_mode", "source", env.mode, env),
             "get_eq_preset", "sound_mode", "Normal", env),
            "get_mute", "is_volume_muted", "False", env),
           "get_play_graphic", "media_image_url", "Image", env),
          "get_play_position", "media_position", 0, env),
         "media_position_updated_at", "now"),
        "get_play_shuffle", "shuffle", "False", env),
       "get_play_repeat", "repeat", "False", env),
      "get_volume", "volume_level",
      VolumeLevel(env.volume, ctx.e.max_volume), env)

\* AFSAPIDevice.async_update
async_update(ctx, env) ==
    LET status == PollStatus(ctx, env)
    IN FetchMedia(
         IF status.ok    \* the else branch of the try, lines 176-214
         THEN FetchMaxVolume(
                FetchSoundModes(
                  FetchSources(
                    FetchUniqueId(
                      FetchName(status, env), env), env), env), env)
         ELSE status, env)

\* --------------------------------------------------------------- commands
\* lines 262-264
async_turn_on(e, env) == Call(Ctx(e), "set_power", StrArg("True"), env)

\* lines 266-268
async_turn_off(e, env) == Call(Ctx(e), "set_power", StrArg("False"), env)

\* lines 270-272
async_media_play(e, env) == Call(Ctx(e), "play", NoArg, env)

\* lines 274-276
async_media_pause(e, env) == Call(Ctx(e), "pause", NoArg, env)

\* lines 278-283
async_media_play_pause(e, env) ==
    IF e.state = STATE_PLAYING
    THEN Call(Ctx(e), "pause", NoArg, env)
    ELSE Call(Ctx(e), "play", NoArg, env)

\* lines 285-287
async_media_stop(e, env) == Call(Ctx(e), "pause", NoArg, env)

\* lines 289-291
async_media_previous_track(e, env) == Call(Ctx(e), "rewind", NoArg, env)

\* lines 293-295
async_media_next_track(e, env) == Call(Ctx(e), "forward", NoArg, env)

\* lines 297-299
async_media_seek(e, position, env) ==
    Call(Ctx(e), "set_play_position", IntArg(position), env)

\* lines 301-303
async_set_shuffle(e, shuffle, env) ==
    Call(Ctx(e), "set_play_shuffle",
         StrArg(IF shuffle THEN "True" ELSE "False"), env)

\* lines 305-307
async_set_repeat(e, repeat, env) ==
    Call(Ctx(e), "set_play_repeat",
         StrArg(IF repeat # REPEAT_MODE_OFF THEN "True" ELSE "False"), env)

\* lines 310-312
async_mute_volume(e, mute, env) ==
    Call(Ctx(e), "set_mute", StrArg(IF mute THEN "True" ELSE "False"), env)

\* lines 315-319: set_volume(min(volume, self._max_volume)); min(int, None)
\* is a TypeError
async_volume_up(e, env) ==
    LET c1 == Call(Ctx(e), "get_volume", NoArg, env)
        volume == (IF FalsyInt(env.volume) THEN 0 ELSE env.volume) + 1
    IN IF ~Running(c1) THEN c1
       ELSE IF e.max_volume = NoneInt THEN [c1 EXCEPT !.raised = "TypeError"]
       ELSE Call(c1, "set_volume",
                 IntArg(IF e.max_volume < volume THEN e.max_volume
                        ELSE volume), env)

\* lines 321-325: set_volume(max(volume, 0))
async_volume_down(e, env) ==
    LET c1 == Call(Ctx(e), "get_volume", NoArg, env)
        volume == (IF FalsyInt(env.volume) THEN 0 ELSE env.volume) - 1
    IN IF ~Running(c1) THEN c1
       ELSE Call(c1, "set_volume",
                 IntArg(IF volume < 0 THEN 0 ELSE volume), env)

\* lines 327-331; volume is the fraction num/den, int() truncates
async_set_volume_level(e, volume, env) ==
    IF FalsyInt(e.max_volume) THEN Ctx(e)
    ELSE Call(Ctx(e), "set_volume",
              IntArg((volume.num * e.max_volume) \div volume.den), env)

\* lines 333-336; None.get is an AttributeError, dict.get of a missing key
\* is None
async_select_source_single(ctx, source, env) ==
    IF ~Running(ctx) THEN ctx
       ELSE IF ctx.e.modes_by_label = NoneDict
       THEN [ctx EXCEPT !.raised = "AttributeError"]
       ELSE Call(ctx, "set_mode",
                 StrArg(IF source \in DOMAIN ctx.e.modes_by_label
                        THEN ctx.e.modes_by_label[source] ELSE None), env)

async_select_source(ctx, source, env) ==
    LET c1 == Call(ctx, "set_power", StrArg("True"), env)
    IN IF ~Running(c1) THEN c1
       ELSE IF c1.e.modes_by_label = NoneDict
       THEN [c1 EXCEPT !.raised = "AttributeError"]
       ELSE Call(c1, "set_mode",
                 StrArg(IF source \in DOMAIN c1.e.modes_by_label
                        THEN c1.e.modes_by_label[source] ELSE None), env)

\* lines 338-340; None[...] is a TypeError, a missing key a KeyError
async_select_sound_mode(e, sound_mode, env) ==
    IF e.sound_modes_by_label = NoneDict
    THEN [Ctx(e) EXCEPT !.raised = "TypeError"]
    ELSE IF sound_mode \notin DOMAIN e.sound_modes_by_label
    THEN [Ctx(e) EXCEPT !.raised = "KeyError"]
    ELSE Call(Ctx(e), "set_eq_preset",
              StrArg(e.sound_modes_by_label[sound_mode]), env)

\* media_id.split("/"): a media id is a sequence of tokens, "/" being the
\* separator; the result is the list of the strings between separators.
RECURSIVE Concat(_)
Concat(tokens) ==
    IF tokens = <<>> THEN "" ELSE tokens[1] \o Concat(Tail(tokens))

RECURSIVE Parts(_, _)
Parts(rest, cur) ==
    IF rest = <<>> THEN <<Concat(cur)>>
    ELSE IF rest[1] = "/"
    THEN <<Concat(cur)>> \o Parts(Tail(rest), <<>>)
    ELSE Parts(Tail(rest), Append(cur, rest[1]))

Split(media_id) == Parts(media_id, <<>>)

\* int(str) of the decimal strings used here; -1: ValueError
ParseInt(str) ==
    IF str = "0" THEN 0 ELSE IF str = "1" THEN 1 ELSE IF str = "2" THEN 2
    ELSE -1

\* lines 349-381
async_play_media(e, media_type, media_id, env) ==
    IF media_type \notin {MEDIA_TYPE_CHANNEL, MEDIA_TYPE_PRESET}
    THEN [Ctx(e) EXCEPT !.log = Append(@, "Got unsupported media type")]
    ELSE
      LET keys == Split(media_id)
          desired_source == keys[1]
          c1 == IF e.source # desired_source
                THEN async_select_source(Ctx(e), desired_source, env)
                ELSE Ctx(e)
          c2 == IF ~Running(c1) THEN c1
                ELSE IF media_type = MEDIA_TYPE_PRESET
                THEN IF Len(keys) # 2
                     THEN [c1 EXCEPT !.raised = "BrowseError"]
                     ELSE IF ParseInt(keys[Len(keys)]) = -1
                     THEN [c1 EXCEPT !.raised = "ValueError"]
                     ELSE Call(c1, "select_preset",
                               IntArg(ParseInt(keys[Len(keys)]) - 1), env)
                ELSE Call(c1, "nav_select_item_via_path",
                          [str |-> Tail(keys), num |-> NoneInt], env)
      IN async_update(c2, env)

\* ------------------------------------------------------------------- state
VARIABLES
    flows,      \* flow slot -> the ConfigFlow object in progress (or idle)
    entries,    \* the config entries of this integration
    next_id,    \* the next entry id the host hands out
    hass_data,  \* hass.data
    loaded,     \* ids of the entries set up and not unloaded since
    last,       \* the last call made: its inputs, vendor outcomes, result
                \* (form_errors: the errors on the form it answered, when
                \* the call before it showed that form)
    player,     \* the AFSAPIDevice entity
    plast,      \* the last method run on the entity: its vendor calls,
                \* the one that failed, the exception it left with, what
                \* it logged, the last connection message logged so
                \* far, the volume and the step count the device answered,
                \* the media asked for (play_media)
    device      \* the device behind the entity: its number of volume steps

vars == <<flows, entries, next_id, hass_data, loaded, last,
          player, plast, device>>

\* Entries already stored when the integration starts, shaped like the
\* tests' fixture: one per device, the unique id being the webfsapi_url.
ExistingEntry(id, url) ==
    [entry_id |-> id, unique_id |-> url,
     title |-> "Mock Title", source |-> "user",
     data |-> [webfsapi_url |-> url, pin |-> "1234", use_session |-> FALSE]]
mock_existing_entry == ExistingEntry(0, "http://1.1.1.1:80/webfsapi")
ExistingEntries ==
    {mock_existing_entry, ExistingEntry(1, "http://2.2.2.2:80/webfsapi")}

NoLast ==
    [op |-> None, flow |-> 0, input |-> InputNone, found |-> {},
     form_errors |-> None,
     vendor_url |-> NoCall, vendor_cfg |-> NoCall, calls |-> <<>>,
     result |-> NoResult, entry |-> -1, ret |-> None, info |-> NoData]

\* No method has run on the entity yet.
NoRun ==
    [op |-> None, calls |-> <<>>, raised |-> None, log |-> <<>>,
     last_log |-> None, volume |-> NoneInt,
     steps |-> NoneInt, failed |-> [at |-> 0, kind |-> None],
     request |-> [media_type |-> None, media_id |-> <<>>]]

InitPlayer ==
    /\ player = NewDevice
    /\ plast = NoRun
    /\ device \in [steps : {MaxSteps}]

Init ==
    /\ flows = [f \in Flows |-> IdleFlow]
    /\ entries \in SUBSET ExistingEntries
    /\ next_id = 2
    /\ hass_data = <<>>
    /\ loaded = {}
    /\ last = NoLast
    /\ InitPlayer

\* ------------------------------------------------------- the flow manager
IsIdle(f) == flows[f].source = None
InProgress(f) == {flows[g].unique_id : g \in Flows \ {f}} \ {None}
CanStart(f) ==
    /\ IsIdle(f)
    /\ \A g \in Flows : g < f => ~IsIdle(g)
    /\ Cardinality(entries) + Cardinality({g \in Flows : ~IsIdle(g)})
          < MaxEntries

Made(calls, fn) == \E i \in 1 .. Len(calls) : calls[i].fn = fn

NewEntry(self, res) ==
    [entry_id |-> next_id, unique_id |-> self.unique_id, title |-> res.title,
     source |-> self.source, data |-> res.data]

\* The flow manager's handling of a step's result: a form keeps the flow at
\* that step, an abort ends it, a created entry is stored and ends this
\* flow and every other flow in progress with the same unique id; an
\* exception ends a flow that was being initialised and otherwise leaves
\* the flow at the step it was in.
Finish(f, op, input, found, vendorUrl, vendorCfg, out) ==
    LET res == out.result
    IN
    /\ flows' =
         IF res.type = "form"
         THEN [flows EXCEPT ![f] = [out.self EXCEPT !.cur_step = res.step_id]]
         ELSE IF res.type = "abort"
         THEN [flows EXCEPT ![f] = IdleFlow]
         ELSE IF res.type = "create_entry"
         THEN [g \in Flows |->
                 IF g = f \/ (out.self.unique_id # None
                               /\ flows[g].unique_id = out.self.unique_id)
                 THEN IdleFlow ELSE flows[g]]
         ELSE IF IsIdle(f) THEN [flows EXCEPT ![f] = IdleFlow]
         ELSE [flows EXCEPT ![f] = out.self]
    /\ entries' = IF res.type = "create_entry"
                  THEN out.entries \cup {NewEntry(out.self, res)}
                  ELSE out.entries
    /\ next_id' = IF res.type = "create_entry" THEN next_id + 1 ELSE next_id
    /\ last' = [op |-> op, flow |-> f, input |-> input, found |-> found,
                form_errors |-> IF last.flow = f /\ last.result.type = "form"
                                THEN last.result.errors ELSE None,
                vendor_url |-> IF Made(out.calls, "get_webfsapi_endpoint")
                               THEN vendorUrl ELSE NoCall,
                vendor_cfg |-> IF Made(out.calls, "get_friendly_name")
                               THEN vendorCfg ELSE NoCall,
                calls |-> out.calls, result |-> res, entry |-> -1,
                ret |-> None, info |-> NoData]
    /\ UNCHANGED <<hass_data, loaded, player, plast, device>>

\* The device answers the default-PIN probe only when its endpoint was
\* resolved; otherwise no second call is made.
ProbeOutcomes(vu) == IF vu.kind = "ok" THEN FriendlyNameOutcomes ELSE {NoCall}

\* What ssdp.async_get_discovery_info_by_udn_st can return for the input's
\* UDN, as a set: nothing, or a discovery with that UDN.
Lookups(input) ==
    {{}} \cup {{d} : d \in {x \in Discoveries :
                               /\ ~IsNone(input)
                               /\ "unique_id" \in DOMAIN input
                               /\ x.ssdp_udn = input.unique_id}}

\* flow.async_init(DOMAIN, context={"source": SOURCE_IMPORT}, data=...)
\* ---- async_setup: the YAML configuration of the media_player platform
CONF_PASSWORD == "password"
CONF_PLATFORM == "platform"

\* dict.get(key, default)
DictGet(d, key, default) == IF key \in DOMAIN d THEN d[key] ELSE default

\* media_player entries of configuration.yaml, valid for PLATFORM_SCHEMA:
\* host alone, all the options, and an entry of another platform.
YamlEntries ==
    {[platform |-> FS_DOMAIN, host |-> "1.1.1.1"],
     [platform |-> FS_DOMAIN, host |-> "1.1.1.1", port |-> 80,
      password |-> "4321", name |-> "Test name"],
     [platform |-> "demo", host |-> "1.1.1.1"]}

\* async_setup._migrate_entry: the data handed to the import flow
migrate_entry(entry_to_migrate) ==
    LET host == DictGet(entry_to_migrate, CONF_HOST, None)
        port == DictGet(entry_to_migrate, CONF_PORT, 80)
        name == DictGet(entry_to_migrate, CONF_NAME, None)
        device_url == DeviceUrl(host, port)
    IN [name |-> name, device_url |-> device_url,
        pin |-> DictGet(entry_to_migrate, CONF_PASSWORD, DEFAULT_PIN),
        use_session |-> FALSE]

\* async_setup: one import flow per entry of this platform
MigrateEntry(f) ==
    /\ CanStart(f)
    /\ \E entry_to_migrate \in YamlEntries, vu \in EndpointOutcomes :
         /\ DictGet(entry_to_migrate, CONF_PLATFORM, None) = FS_DOMAIN
         /\ LET info == migrate_entry(entry_to_migrate)
                out == async_step_import(NewFlow("import"), info, vu, entries,
                                         InProgress(f))
            IN Finish(f, "async_setup", info, {},
                      IF Made(out.calls, "get_webfsapi_endpoint")
                      THEN vu ELSE NoCall, NoCall, out)

StartImport(f) ==
    /\ CanStart(f)
    /\ \E info \in ImportInfos, vu \in EndpointOutcomes :
         Finish(f, "import", info, {}, vu, NoCall,
                async_step_import(NewFlow("import"), info, vu, entries,
                                  InProgress(f)))

\* flow.async_init(DOMAIN, context={"source": SOURCE_USER}): the empty form
StartUser(f) ==
    /\ CanStart(f)
    /\ Finish(f, "user_init", InputNone, {}, NoCall, NoCall,
              async_step_user(NewFlow("user"), InputNone, NoCall, NoCall,
                              entries, InProgress(f)))

StartSsdp(f) ==
    /\ CanStart(f)
    /\ \E d \in Discoveries, vu \in EndpointOutcomes :
       \E vc \in ProbeOutcomes(vu) :
         Finish(f, "ssdp", d, {}, vu, vc,
                async_step_ssdp(NewFlow("ssdp"), d, vu, vc, entries,
                                InProgress(f)))

StartUnignore(f) ==
    /\ CanStart(f)
    /\ \E input \in UnignoreInputs :
       \E found \in Lookups(input) :
       \E vu \in IF found = {} THEN {NoCall} ELSE EndpointOutcomes :
       \E vc \in ProbeOutcomes(vu) :
            Finish(f, "unignore", input, found, vu, vc,
                   async_step_unignore(NewFlow("unignore"), input, found,
                                       vu, vc, entries, InProgress(f)))

\* flow.async_configure(flow_id, user_input) on the form last shown
SubmitUser(f) ==
    /\ flows[f].cur_step = "user"
    /\ \E input \in UserInputs, vu \in EndpointOutcomes :
       \E vc \in ProbeOutcomes(vu) :
         Finish(f, "user", input, {}, vu, vc,
                async_step_user(flows[f], input, vu, vc, entries,
                                InProgress(f)))

SubmitDeviceConfig(f) ==
    /\ flows[f].cur_step = "device_config"
    /\ \E input \in PinInputs, vc \in FriendlyNameOutcomes :
         Finish(f, "device_config", input, {}, NoCall, vc,
                async_step_device_config(flows[f], input, vc, entries, <<>>))

SubmitConfirm(f) ==
    /\ flows[f].cur_step = "confirm"
    /\ Finish(f, "confirm", InputEmpty, {}, NoCall, NoCall,
              async_step_confirm(flows[f], InputEmpty, entries, <<>>))

\* ---------------------------------------------------- entry setup / unload
EntryCall(op, e, r) ==
    /\ hass_data' = r.hass_data
    /\ last' = [NoLast EXCEPT !.op = op, !.entry = e.entry_id, !.ret = r.ret,
                              !.result = Raise(r.exc)]
    /\ UNCHANGED <<flows, entries, next_id, player, plast, device>>

SetupEntry(e) ==
    /\ e.entry_id \notin loaded
    /\ LET r == async_setup_entry(hass_data, e)
       IN /\ EntryCall("setup", e, r)
          /\ loaded' = IF r.ret = "True" THEN loaded \cup {e.entry_id}
                       ELSE loaded

\* unload_ok: what hass.config_entries.async_unload_platforms returns
UnloadEntry(e) ==
    /\ e.entry_id \in loaded
    /\ \E unload_ok \in BOOLEAN :
         LET r == async_unload_entry(hass_data, e, unload_ok)
         IN /\ EntryCall("unload", e, r)
            /\ loaded' = IF r.ret = "True" THEN loaded \ {e.entry_id}
                         ELSE loaded

Next ==
    \/ \E f \in Flows : MigrateEntry(f)
    \/ \E f \in Flows : StartImport(f)
    \/ \E f \in Flows : StartUser(f)
    \/ \E f \in Flows : StartSsdp(f)
    \/ \E f \in Flows : StartUnignore(f)
    \/ \E f \in Flows : SubmitUser(f)
    \/ \E f \in Flows : SubmitDeviceConfig(f)
    \/ \E f \in Flows : SubmitConfirm(f)
    \/ \E e \in entries : SetupEntry(e)
    \/ \E e \in entries : UnloadEntry(e)

Spec == Init /\ [][Next]_vars

\* ------------------------------------------- the validation helpers alone
\* Each helper applied to every outcome of the vendor call it makes.
ValidateUrl ==
    \E v \in {VendorOk(u) : u \in WebfsapiUrls}
             \cup {VendorFail("FSApiException", m) : m \in Messages}
             \cup {VendorFail("Exception", m) : m \in BaseMessages} :
       LET r == validate_device_url(v)
       IN /\ last' = [NoLast EXCEPT !.op = "validate_device_url",
                                    !.vendor_url = v,
                                    !.ret = r.value,
                                    !.result = Raise(r.exc)]
          /\ UNCHANGED <<flows, entries, next_id, hass_data, loaded,
                          player, plast, device>>

ValidateConfig ==
    \E v \in {VendorOk(n) : n \in FriendlyNames}
             \cup {VendorFail("FSApiException", m) : m \in Messages}
             \cup {VendorFail("Exception", m) : m \in BaseMessages} :
       LET r == validate_device_config(v)
       IN /\ last' = [NoLast EXCEPT !.op = "validate_device_config",
                                    !.vendor_cfg = v,
                                    !.info = IF r.kind = "ok" THEN r.value
                                             ELSE NoData,
                                    !.result = Raise(r.exc)]
          /\ UNCHANGED <<flows, entries, next_id, hass_data, loaded,
                          player, plast, device>>

InitValidation ==
    /\ flows = [f \in Flows |-> IdleFlow]
    /\ entries = {}
    /\ next_id = 2
    /\ hass_data = <<>>
    /\ loaded = {}
    /\ last = NoLast
    /\ InitPlayer

NextValidation == ValidateUrl \/ ValidateConfig

SpecValidation == InitValidation /\ [][NextValidation]_vars

\* ------------------------------------------------- the entity's methods
\* The vendor calls of one method run that fail are among its first
\* MaxFailAt: in a first poll the status calls, the static attributes
\* and the first media attribute.
MaxFailAt == 9

\* Which vendor call of a run fails, and how (at = 0: none).
\* Any call fails with a connection error; the calls whose handlers tell
\* the two exceptions apart (get_power, get_play_status, get_radio_id, the
\* first four of a poll) also fail with another FSApiException.
MaxApiFailAt == 4
Failures0 == [at |-> 0, kind |-> None]
Failures ==
    {Failures0}
        \cup [at : 1 .. MaxFailAt, kind : {FSConnectionError}]
        \cup [at : 1 .. MaxApiFailAt, kind : {FSApiException}]

\* What the device answers during one run.  It reports its step count or
\* nothing; its volume is within 0 .. steps - 1, or not reported.
Env(power, status, steps, volume, mode, fail) ==
    [power |-> power, status |-> status, steps |-> steps, volume |-> volume,
     mode |-> mode, name |-> "Radio", radio_id |-> "ID1",
     play_name |-> "Name", play_text |-> "Text",
     fail_at |-> fail.at, fail_kind |-> fail.kind]

\* The environments of a command: its first or second call may fail; a
\* volume step reads the volume, which is within 0 .. steps - 1 or None.
VolumeEnvs ==
    {Env(TRUE, None, NoneInt, volume, "DAB", fail) :
        volume \in {NoneInt} \cup (0 .. (device.steps - 1)),
        fail \in {f \in Failures : f.at <= 2}}
CmdEnvs == {env \in VolumeEnvs : env.volume = NoneInt}

\* The failures that differ for a run making n vendor calls when none fails.
FailuresWithin(n) == {f \in Failures : f.at <= n}

\* The entity and the record of the run after a method ended.
Ran(op, request, ctx, env) ==
    /\ player' = ctx.e
    /\ plast' =
         [op |-> op, request |-> request,
          calls |-> ctx.calls, raised |-> ctx.raised,
          log |-> ctx.log,
          last_log |->
              LET shown == SelectSeq(ctx.log,
                      LAMBDA x : x \in {"Could not connect", "Reconnected"})
              IN IF shown = <<>> THEN plast.last_log ELSE shown[Len(shown)],
          volume |-> IF op \in {"async_volume_up", "async_volume_down"}
                     THEN env.volume ELSE NoneInt,
          steps |-> IF \E i \in 1 .. Len(ctx.calls) :
                             /\ ctx.calls[i].fn = "get_volume_steps"
                             /\ i # env.fail_at
                    THEN env.steps ELSE NoneInt,
          failed |-> IF env.fail_at \in 1 .. Len(ctx.calls)
                     THEN [at |-> env.fail_at, kind |-> env.fail_kind]
                     ELSE Failures0]
    /\ UNCHANGED <<flows, entries, next_id, hass_data, loaded, last, device>>

\* The platform polls the entity (SCAN_INTERVAL).  The device answers
\* the play state PLAYING or one the entity does not map, its highest
\* volume and the mode DAB.
Poll ==
    \E power \in BOOLEAN, status \in {"PLAYING", "OTHER"},
       steps \in {NoneInt, device.steps}, volume \in {device.steps - 1},
       mode \in {"DAB"} :
        /\ ~power => status = "OTHER"
        /\ LET quiet == Env(power, status, steps, volume, mode, Failures0)
               n == Len(async_update(Ctx(player), quiet).calls)
           IN \E fail \in FailuresWithin(n) :
                LET env == Env(power, status, steps, volume, mode, fail)
                IN Ran("async_update", NoRun.request,
                       async_update(Ctx(player), env), env)

\* A poll during which every vendor call answers.
PollQuiet ==
    \E power \in BOOLEAN, status \in {"PLAYING", None},
       steps \in {NoneInt, device.steps}, mode \in DOMAIN DeviceModes :
        /\ ~power => status = None
        /\ LET env == Env(power, status, steps, 0, mode, Failures0)
           IN Ran("async_update", NoRun.request,
                  async_update(Ctx(player), env), env)

\* The media asked for: a preset, a preset id with three segments, and
\* a path that names a channel (and, as a preset, is no number).
PlayMedia ==
    \E media_type \in {MEDIA_TYPE_CHANNEL, MEDIA_TYPE_PRESET, "music"},
       media_id \in {<<"DAB", "/", "1">>,
                     <<"Internet radio", "/", "1", "/", "2">>,
                     <<"Internet radio", "/", "x">>} :
        LET quiet == Env(TRUE, "PLAYING", device.steps, 0, "DAB", Failures0)
            n == Len(async_play_media(player, media_type, media_id,
                                      quiet).calls)
        IN \E fail \in FailuresWithin(n) :
             LET env == Env(TRUE, "PLAYING", device.steps, 0, "DAB", fail)
             IN Ran("async_play_media",
                    [media_type |-> media_type, media_id |-> media_id],
                    async_play_media(player, media_type, media_id, env), env)

NextPlayer == Poll \/ PlayMedia

SpecPlayer == InitValidation /\ [][NextPlayer]_vars

\* The user's actions on the entity; a level asked for is 0, 1/2 or 1.
NextCommands ==
    \/ PollQuiet
    \/ \E env \in CmdEnvs :
         Ran("async_turn_on", NoRun.request, async_turn_on(player, env), env)
    \/ \E env \in CmdEnvs :
         Ran("async_turn_off", NoRun.request, async_turn_off(player, env), env)
    \/ \E env \in CmdEnvs :
         Ran("async_media_play", NoRun.request,
             async_media_play(player, env), env)
    \/ \E env \in CmdEnvs :
         Ran("async_media_pause", NoRun.request,
             async_media_pause(player, env), env)
    \/ \E env \in CmdEnvs :
         Ran("async_media_play_pause", NoRun.request,
             async_media_play_pause(player, env),
             env)
    \/ \E env \in CmdEnvs :
         Ran("async_media_stop", NoRun.request,
             async_media_stop(player, env), env)
    \/ \E env \in CmdEnvs :
         Ran("async_media_previous_track", NoRun.request,
             async_media_previous_track(player, env), env)
    \/ \E env \in CmdEnvs :
         Ran("async_media_next_track", NoRun.request,
             async_media_next_track(player, env),
             env)
    \/ \E position \in {0, 1}, env \in CmdEnvs :
         Ran("async_media_seek", NoRun.request,
             async_media_seek(player, position, env), env)
    \/ \E shuffle \in BOOLEAN, env \in CmdEnvs :
         Ran("async_set_shuffle", NoRun.request,
             async_set_shuffle(player, shuffle, env), env)
    \/ \E repeat \in {"off", "all", "one"}, env \in CmdEnvs :
         Ran("async_set_repeat", NoRun.request,
             async_set_repeat(player, repeat, env), env)
    \/ \E mute \in BOOLEAN, env \in CmdEnvs :
         Ran("async_mute_volume", NoRun.request,
             async_mute_volume(player, mute, env), env)
    \/ \E env \in VolumeEnvs :
         Ran("async_volume_up", NoRun.request,
             async_volume_up(player, env), env)
    \/ \E env \in VolumeEnvs :
         Ran("async_volume_down", NoRun.request,
             async_volume_down(player, env), env)
    \/ \E num \in 0 .. 2, env \in CmdEnvs :
         Ran("async_set_volume_level", NoRun.request,
             async_set_volume_level(player, [num |-> num, den |-> 2], env),
             env)
    \/ \E source \in DOMAIN DeviceModes \cup {"Bluetooth"}, env \in CmdEnvs :
         Ran("async_select_source", NoRun.request,
             async_select_source(Ctx(player), source, env), env)
    \/ \E sound_mode \in DOMAIN DeviceEqualisers \cup {"Rock"},
          env \in CmdEnvs :
         Ran("async_select_sound_mode", NoRun.request,
             async_select_sound_mode(player, sound_mode, env), env)

SpecCommands == InitValidation /\ [][NextCommands]_vars

TypeOK ==
    /\ \A f \in Flows : flows[f].cur_step \in {"init", "user", "device_config", "confirm"}
    /\ next_id \in 2 .. (MaxEntries + 2)

\* =================================================================== claims
FlowOps == {"import", "user", "ssdp", "unignore", "confirm", "device_config"}
Failed(v) == v.kind \in {"FSApiException", "Exception"}
IsPinForm(res) == res.type = "form" /\ res.step_id = "device_config"
EntryIds(ents) == {e.entry_id : e \in ents}

\* C1: when validate_device_url fails, CannotConnect is reported as
\* 'cannot_connect' and any other exception as 'unknown'; the user step
\* re-shows the 'user' form with that error and the flow stays open, the
\* import and ssdp steps abort with that reason; no entry is created.
C1_UrlFailureMapped ==
    [][(last'.op \in {"import", "user", "ssdp"} /\ Failed(last'.vendor_url)) =>
         LET f == last'.flow
             outcome == IF last'.vendor_url.kind = "FSApiException"
                        THEN "cannot_connect" ELSE "unknown"
         IN /\ entries' = entries
            /\ IF last'.op = "user"
               THEN /\ last'.result = Form("user", outcome)
                    /\ flows'[f] = flows[f]
               ELSE /\ last'.result = Abort(outcome)
                    /\ flows'[f] = IdleFlow]_vars

C1_Witness ==
    /\ last.op = "user"
    /\ last.vendor_url.kind = "Exception"
    /\ last.result.errors = "unknown"
    /\ flows[last.flow].cur_step = "user"

\* C2: in every step of the flow a failed device probe (validate_device_url
\* or validate_device_config, the default-PIN probe included) never leaves
\* the step as an exception: the step returns a form or an abort.
C2_ProbeFailureNeverEscapes ==
    (last.op \in FlowOps /\ (Failed(last.vendor_url) \/ Failed(last.vendor_cfg)))
        => last.result.type \in {"form", "abort"}

\* C3: in step device_config with a submitted PIN, a failed validation
\* re-shows the 'device_config' form with 'invalid_auth', 'cannot_connect'
\* or 'unknown' and neither ends the flow nor creates an entry; a
\* submission whose validation succeeds creates the entry, also after
\* failed submissions.
C3_PinFailureReshowsForm ==
    [][last'.op = "device_config" =>
         LET f == last'.flow
             r == validate_device_config(last'.vendor_cfg)
             code == IF r.exc = "InvalidAuth" THEN "invalid_auth"
                     ELSE IF r.exc = "CannotConnect" THEN "cannot_connect"
                     ELSE "unknown"
         IN IF Failed(last'.vendor_cfg)
            THEN /\ last'.result = Form("device_config", code)
                 /\ flows'[f] = flows[f]
                 /\ entries' = entries
            ELSE /\ last'.result.type = "create_entry"
                 /\ \E e \in entries' \ entries :
                       /\ e.title = last'.vendor_cfg.value
                       /\ e.data = last'.result.data
                       /\ e.data.webfsapi_url = flows[f].webfsapi_url]_vars

C3_Witness ==
    /\ last.op = "device_config"
    /\ last.form_errors = "invalid_auth"
    /\ last.result.type = "create_entry"

\* C4: once the URL is resolved in a user or ssdp step, the PIN form is
\* shown exactly when the default-PIN probe was rejected with InvalidAuth,
\* and without errors; when the default PIN is accepted in a user flow the
\* entry is created in that step, titled with the friendly name, with data
\* exactly {webfsapi_url, pin: DEFAULT_PIN}.
C4_PinFormIffInvalidAuth ==
    (last.op \in {"user", "ssdp"} /\ last.vendor_url.kind = "ok") =>
        /\ IsPinForm(last.result) <=>
              /\ Made(last.calls, "get_friendly_name")
              /\ validate_device_config(last.vendor_cfg) = Raised("InvalidAuth")
        /\ IsPinForm(last.result) => last.result.errors = None
        /\ (last.op = "user" /\ last.vendor_cfg.kind = "ok") =>
              /\ last.result =
                    CreateEntry(last.vendor_cfg.value,
                                [webfsapi_url |-> last.vendor_url.value,
                                 pin |-> DEFAULT_PIN])
              /\ \E e \in entries : /\ e.title = last.result.title
                                    /\ e.data = last.result.data

C4_Witness ==
    /\ last.op = "user"
    /\ last.vendor_url.kind = "ok"
    /\ last.vendor_cfg.kind = "ok"
    /\ last.result.type = "create_entry"

\* C5: every PIN submitted in step device_config and accepted by the device
\* is stored unchanged in the created entry, with the resolved
\* webfsapi_url; the default PIN is stored only by the steps that never
\* asked for a PIN.
C5_SubmittedPinStored ==
    /\ (last.op = "device_config" /\ last.vendor_cfg.kind = "ok") =>
          last.result.data = [webfsapi_url |-> last.calls[1].url,
                              pin |-> last.input.pin]
    /\ (last.op \in {"user", "confirm", "device_config"}
          /\ last.result.type = "create_entry"
          /\ last.result.data.pin = DEFAULT_PIN) =>
          last.op \in {"user", "confirm"}

\* C6: the step that handles an SSDP discovery (ssdp, or unignore running
\* it) never creates an entry; when the default PIN is accepted it shows
\* the 'confirm' form, and submitting that form creates the entry with the
\* friendly name as title and the default PIN.
C6_SsdpConfirmsFirst ==
    [][LET f == last'.flow
       IN /\ last'.op \in {"ssdp", "unignore"} =>
               /\ last'.result.type # "create_entry"
               /\ EntryIds(entries') = EntryIds(entries)
               /\ last'.vendor_cfg.kind = "ok" =>
                     /\ last'.result = Form("confirm", None)
                     /\ flows'[f].cur_step = "confirm"
                     /\ flows'[f].name = last'.vendor_cfg.value
                     /\ flows'[f].webfsapi_url = last'.vendor_url.value
          /\ last'.op = "confirm" =>
               /\ flows[f].source \in {"ssdp", "unignore"}
               /\ last'.result =
                     CreateEntry(flows[f].name,
                                 [webfsapi_url |-> flows[f].webfsapi_url,
                                  pin |-> DEFAULT_PIN])
               /\ \E e \in entries' \ entries :
                     /\ e.unique_id = flows[f].unique_id
                     /\ e.title = flows[f].name
                     /\ e.data = last'.result.data]_vars

C6_Witness ==
    /\ last.op = "confirm"
    /\ last.result.type = "create_entry"
    /\ \E e \in entries : e.source = "unignore" /\ e.data.pin = DEFAULT_PIN

\* C7: an import or user step whose resolved webfsapi_url is the unique id
\* of an existing entry aborts with 'already_configured' without probing a
\* PIN and creates nothing; no two entries ever share a unique id.
C7_AlreadyConfigured ==
    [][/\ (/\ last'.op \in {"import", "user"}
           /\ last'.vendor_url.kind = "ok"
           /\ \E e \in entries : e.unique_id = last'.vendor_url.value) =>
              /\ last'.result = Abort("already_configured")
              /\ ~Made(last'.calls, "get_friendly_name")
              /\ entries' = entries
       /\ \A e1, e2 \in entries' :
              e1.unique_id = e2.unique_id => e1 = e2]_vars

C7_Witness ==
    /\ last.op = "user"
    /\ last.result.reason = "already_configured"
    /\ \E e \in entries : e.unique_id = last.vendor_url.value
                            /\ e.entry_id >= 2

\* C8: unignore aborts with 'unknown' on an empty input or one without
\* 'unique_id', with 'discovery_error' when no discovery is known for the
\* UDN, and otherwise ends as the ssdp step does on the found discovery:
\* same result, same flow state, same entries.
C8_UnignoreLikeSsdp ==
    [][last'.op = "unignore" =>
         LET f == last'.flow
             input == last'.input
             found == last'.found
         IN IF IsNone(input) \/ DOMAIN input = {}
                 \/ "unique_id" \notin DOMAIN input
            THEN /\ last'.result = Abort("unknown")
                 /\ flows'[f] = IdleFlow /\ entries' = entries
            ELSE IF found = {}
            THEN /\ last'.result = Abort("discovery_error")
                 /\ flows'[f] = IdleFlow /\ entries' = entries
            ELSE LET d == CHOOSE x \in found : TRUE
                     o == async_step_ssdp(NewFlow("unignore"), d,
                              last'.vendor_url, last'.vendor_cfg, entries,
                              InProgress(f))
                 IN /\ d.ssdp_udn = input.unique_id
                    /\ last'.result = o.result
                    /\ last'.calls = o.calls
                    /\ entries' = o.entries
                    /\ o.result.type = "form" =>
                          flows'[f] = [o.self EXCEPT
                                          !.cur_step = o.result.step_id]
                    /\ o.result.type # "form" => flows'[f] = IdleFlow]_vars

C8_Witness ==
    /\ last.op = "unignore"
    /\ last.found # {}
    /\ last.result = Form("confirm", None)
    /\ flows[last.flow].unique_id = "mock_udn"

\* C9: validate_device_config turns an FSApiException whose message starts
\* with 'Access denied' into InvalidAuth and every other FSApiException
\* into CannotConnect, lets any other exception through unchanged and
\* returns {'title': friendly name} on success; validate_device_url turns
\* every FSApiException into CannotConnect.
C9_Classification ==
    /\ last.op = "validate_device_config" =>
          LET v == last.vendor_cfg
              denied == /\ Len(v.msg) >= 13
                        /\ \A i \in 1 .. 13 : v.msg[i] = MsgAccessDenied[i]
          IN /\ (v.kind = "FSApiException" /\ denied) =>
                    last.result = Raise("InvalidAuth")
             /\ (v.kind = "FSApiException" /\ ~denied) =>
                    last.result = Raise("CannotConnect")
             /\ v.kind = "Exception" => last.result = Raise("Exception")
             /\ v.kind = "ok" => /\ last.info = [title |-> v.value]
                                 /\ last.result = Raise(None)
    /\ last.op = "validate_device_url" =>
          LET v == last.vendor_url
          IN /\ v.kind = "FSApiException" =>
                    last.result = Raise("CannotConnect")
             /\ v.kind = "Exception" => last.result = Raise("Exception")
             /\ v.kind = "ok" => /\ last.ret = v.value
                                 /\ last.result = Raise(None)

C9_Witness ==
    /\ last.op = "validate_device_config"
    /\ last.vendor_cfg.msg = MsgAccessDeniedPin
    /\ last.result = Raise("InvalidAuth")

\* C10: hass.data[DOMAIN] holds a client for exactly the entries set up and
\* not successfully unloaded since: setup stores the client under
\* entry.entry_id, a successful unload removes the key and returns True, a
\* failed platform unload returns False and leaves the registry unchanged.
C10_RegistryTracksLoaded ==
    [][/\ DOMAIN Registry(hass_data') = loaded'
       /\ (last'.op = "setup" /\ last'.ret = "True") =>
             \E e \in entries :
                /\ e.entry_id = last'.entry
                /\ Registry(hass_data') =
                      DictSet(Registry(hass_data), e.entry_id,
                              Client(e.data.webfsapi_url, e.data.pin,
                                     e.data.use_session))
       /\ last'.op = "unload" =>
             /\ last'.ret \in {"True", "False"}
             /\ last'.ret = "True" =>
                   /\ last'.entry \in DOMAIN Registry(hass_data)
                   /\ Registry(hass_data') =
                         DictPop(Registry(hass_data), last'.entry)
             /\ last'.ret = "False" => hass_data' = hass_data]_vars

C10_Witness ==
    /\ last.op = "unload"
    /\ last.ret = "False"
    /\ Cardinality(loaded) = 2
    /\ DOMAIN Registry(hass_data) = loaded


\* C12: the data async_setup passes to the import flow for a YAML entry
\* of this platform is accepted by async_step_import: the flow ends in a
\* created entry or in an abort with reason 'cannot_connect', 'unknown' or
\* 'already_configured', never in an unhandled error.
C12_YamlEntryMigrated ==
    last.op = "async_setup" =>
        \/ last.result.type = "create_entry"
        \/ /\ last.result.type = "abort"
           /\ last.result.reason \in
                  {"cannot_connect", "unknown", "already_configured"}

\* ------------------------------------------------------- the media player
CommandOps ==
    {"async_turn_on", "async_turn_off", "async_media_play",
     "async_media_pause", "async_media_play_pause", "async_media_stop",
     "async_media_previous_track", "async_media_next_track",
     "async_media_seek", "async_set_shuffle", "async_set_repeat",
     "async_mute_volume", "async_volume_up", "async_volume_down",
     "async_set_volume_level", "async_select_source",
     "async_select_sound_mode"}
Fns(calls) == [i \in 1 .. Len(calls) |-> calls[i].fn]
Sent(calls, fn) ==
    {calls[i].arg.num : i \in {j \in 1 .. Len(calls) : calls[j].fn = fn}}

\* C11 (as stated): every user action on the media player invokes exactly
\* one method of the vendor client.
C11_SingleCall ==
    plast.op \in CommandOps => Len(plast.calls) = 1

\* C11 (amended): a user action that ends without exception invokes
\* exactly one method of the vendor client, except volume up and volume
\* down, which invoke get_volume and then set_volume, select source, which
\* invokes set_power and then set_mode, and set volume level, which invokes
\* nothing while the max volume is unknown (None or 0); an action that ends
\* with an exception has invoked no more than that.
C11_CallsPerAction ==
    plast.op \in CommandOps =>
        LET fns == Fns(plast.calls)
            full == IF plast.op \in {"async_volume_up", "async_volume_down"}
                    THEN <<"get_volume", "set_volume">>
                    ELSE IF plast.op = "async_select_source"
                    THEN <<"set_power", "set_mode">>
                    ELSE IF plast.op = "async_set_volume_level"
                    THEN IF FalsyInt(player.max_volume) THEN <<>>
                         ELSE <<"set_volume">>
                    ELSE fns
        IN IF plast.raised = None
           THEN fns = full /\ (fns # <<>> => Len(fns) \in {1, 2})
                /\ (Len(fns) = 2 => plast.op \in {"async_volume_up",
                        "async_volume_down", "async_select_source"})
                /\ (fns = <<>> => plast.op = "async_set_volume_level")
           ELSE Len(fns) <= Len(full) /\ Len(fns) <= 2

C11_Witness ==
    /\ plast.op = "async_select_source"
    /\ plast.raised = None
    /\ Fns(plast.calls) = <<"set_power", "set_mode">>

\* C19: volume up never sends a volume lower than the device's current
\* volume nor higher than the max volume, volume down never one below 0
\* nor higher than the current volume, in every state of the entity, also
\* before the max volume is known.
C19_VolumeStepsInRange ==
    LET current == IF plast.volume = NoneInt THEN 0 ELSE plast.volume
    IN /\ plast.op = "async_volume_up" =>
            /\ plast.raised # "TypeError"
            /\ \A v \in Sent(plast.calls, "set_volume") :
                   v >= current /\ v <= player.max_volume
       /\ plast.op = "async_volume_down" =>
            \A v \in Sent(plast.calls, "set_volume") : v >= 0 /\ v <= current

\* The poll of run r (a poll, or the poll that ends play_media) had
\* get_power or get_play_status fail with a connection error.
StatusFailed(r) ==
    /\ r.failed.kind = FSConnectionError
    /\ r.calls[r.failed.at].fn \in {"get_power", "get_play_status"}

\* The poll of run r had get_power, and get_play_status if it was called,
\* answer.
StatusOk(r) ==
    /\ "get_power" \in {r.calls[i].fn : i \in 1 .. Len(r.calls)}
    /\ r.failed.at > 0 =>
           r.calls[r.failed.at].fn \notin {"get_power", "get_play_status"}

PlaybackStates ==
    {STATE_PLAYING, STATE_PAUSED, STATE_IDLE, STATE_OPENING, STATE_UNKNOWN}

\* C13: after every poll available is False exactly when state is
\* 'unavailable'; a connection error from get_power or get_play_status
\* while available sets state 'unavailable' and available False, a further
\* failing poll changes nothing, and a poll in which both calls answer sets
\* a playback or off state and available True.
C13_AvailableTracksState ==
    [][LET r == plast'
       IN /\ (player'.available = FALSE) <=>
                 (player'.state = STATE_UNAVAILABLE)
          /\ (StatusFailed(r) /\ player.available) =>
                 (player'.state = STATE_UNAVAILABLE /\ ~player'.available)
          /\ (StatusFailed(r) /\ ~player.available) => player' = player
          /\ StatusOk(r) =>
                 /\ player'.available
                 /\ player'.state \in PlaybackStates \cup {STATE_OFF}]_vars

C13_Witness ==
    /\ plast.op = "async_update"
    /\ StatusOk(plast)
    /\ "Reconnected" \in {plast.log[i] : i \in 1 .. Len(plast.log)}
    /\ player.available
    /\ player.state = STATE_PLAYING

\* The run r included a poll.
PollRan(r) == "get_power" \in {r.calls[i].fn : i \in 1 .. Len(r.calls)}

MediaCleared(e) ==
    /\ e.media_title = None /\ e.media_artist = None
    /\ e.media_album_name = None /\ e.sound_mode = None
    /\ e.is_volume_muted = None /\ e.media_image_url = None
    /\ e.media_position = NoneInt /\ e.media_position_updated_at = None
    /\ e.shuffle = None /\ e.repeat = None
    /\ e.volume_level = NoneLevel

\* C14: when any vendor call of a poll fails with a connection error, the
\* poll ends with the entity unavailable (available False, state
\* 'unavailable', media fields cleared) and raises nothing.
C14_ConnectionErrorMarksUnavailable ==
    (plast.op = "async_update" /\ plast.failed.kind = FSConnectionError) =>
        /\ plast.raised = None
        /\ ~player.available
        /\ player.state = STATE_UNAVAILABLE
        /\ MediaCleared(player)

Logged(r) ==
    SelectSeq(r.log, LAMBDA x : x \in {"Could not connect", "Reconnected"})

\* C15: a poll logs 'Could not connect' only when its status calls fail
\* and the last connection message was not that warning, and 'Reconnected'
\* only when they answer and the last connection message was the warning;
\* the first failed poll of an outage logs the warning, the first
\* successful poll after it logs 'Reconnected', and a failed poll while
\* unavailable logs nothing.
C15_LoggedOncePerOutage ==
    [][LET r == plast'
       IN /\ Len(Logged(r)) <= 1
          /\ Logged(r) = <<"Could not connect">> =>
                 /\ StatusFailed(r)
                 /\ plast.last_log # "Could not connect"
          /\ Logged(r) = <<"Reconnected">> =>
                 /\ StatusOk(r)
                 /\ plast.last_log = "Could not connect"
          /\ (StatusFailed(r) /\ player.available) =>
                 Logged(r) = <<"Could not connect">>
          /\ (StatusFailed(r) /\ ~player.available) => Logged(r) = <<>>
          /\ (StatusOk(r) /\ ~player.available) =>
                 Logged(r) = <<"Reconnected">>
          /\ (StatusOk(r) /\ player.available) => Logged(r) = <<>>]_vars

C15_Witness ==
    /\ plast.op = "async_update"
    /\ plast.log = <<"Could not connect">>
    /\ player.name = "Radio"
    /\ player.state = STATE_UNAVAILABLE

\* C16 (as stated): after every poll that completes with state 'off' or
\* 'unavailable' the media fields and the volume level are None and the
\* source has the value it had before the poll.
C16_OffClearsMediaKeepsSource ==
    [][(PollRan(plast') /\ plast'.raised = None
        /\ player'.state \in {STATE_OFF, STATE_UNAVAILABLE}) =>
           (MediaCleared(player') /\ player'.source = player.source)]_vars

\* C16 (amended): after every poll that completes with state 'off' or
\* 'unavailable' the media fields and the volume level are None, and the
\* source has the value it had before the poll, except in a poll that
\* fetches the source list, which sets the source to the device's mode.
C16_OffClearsMediaSourceNotReset ==
    [][(PollRan(plast') /\ plast'.raised = None
        /\ player'.state \in {STATE_OFF, STATE_UNAVAILABLE}) =>
           /\ MediaCleared(player')
           /\ IF "get_modes" \in {plast'.calls[i].fn :
                                     i \in 1 .. Len(plast'.calls)}
              THEN player'.source \in DOMAIN DeviceModes
              ELSE player'.source = player.source]_vars

C16_Witness ==
    /\ plast.op = "async_update"
    /\ plast.raised = None
    /\ player.state = STATE_OFF
    /\ player.source = "DAB"
    /\ Len(plast.calls) = 1
    /\ MediaCleared(player)

CalledIn(r, fn) == fn \in {r.calls[i].fn : i \in 1 .. Len(r.calls)}

\* C17: a poll fetches name, unique id, source list, sound-mode list and
\* max volume only while the cached value is empty, and changes none that
\* is not empty; a fetched max volume is the reported number of steps
\* minus one; every poll whose status calls answer and that raises nothing
\* fetches the max volume while it is None or 0.
C17_StaticFetchedWhileEmpty ==
    [][LET r == plast'
       IN PollRan(r) =>
          /\ CalledIn(r, "get_friendly_name") => FalsyStr(player.name)
          /\ CalledIn(r, "get_radio_id") => FalsyStr(player.unique_id)
          /\ CalledIn(r, "get_modes") => FalsyList(player.source_list)
          /\ CalledIn(r, "get_equalisers") =>
                 FalsyList(player.sound_mode_list)
          /\ CalledIn(r, "get_volume_steps") => FalsyInt(player.max_volume)
          /\ ~FalsyStr(player.name) => player'.name = player.name
          /\ ~FalsyStr(player.unique_id) =>
                 player'.unique_id = player.unique_id
          /\ ~FalsyList(player.source_list) =>
                 player'.source_list = player.source_list
          /\ ~FalsyList(player.sound_mode_list) =>
                 player'.sound_mode_list = player.sound_mode_list
          /\ ~FalsyInt(player.max_volume) =>
                 player'.max_volume = player.max_volume
          /\ r.steps # NoneInt => player'.max_volume = r.steps - 1
          /\ (StatusOk(r) /\ r.raised = None /\ FalsyInt(player.max_volume))
                 => CalledIn(r, "get_volume_steps")]_vars

C17_Witness ==
    /\ plast.op = "async_update"
    /\ plast.raised = None
    /\ CalledIn(plast, "get_volume_steps")
    /\ ~CalledIn(plast, "get_friendly_name")
    /\ plast.steps = device.steps
    /\ player.max_volume = device.steps - 1

\* C18: a volume level that is not None lies between 0 and 1 inclusive
\* (the device's volume being within 0 .. steps - 1), and its divisor is
\* not zero.
C18_VolumeLevelInUnitInterval ==
    player.volume_level # NoneLevel =>
        /\ player.volume_level.den # 0
        /\ 0 <= player.volume_level.num
        /\ player.volume_level.num <= player.volume_level.den

\* C20: a rejected play_media sends nothing to the device: with a media
\* type other than channel and preset it logs and returns, with a preset
\* id that has not exactly two segments it raises BrowseError, in both
\* cases without a vendor call.
C20_RejectedPlayMediaSendsNothing ==
    (/\ plast.op = "async_play_media"
     /\ \/ plast.raised = "BrowseError"
        \/ plast.log = <<"Got unsupported media type">>)
        => plast.calls = <<>>

\* The request of the last run was accepted: a channel, or a preset whose
\* id has two segments, the second a number.
PlayAccepted(r) ==
    /\ r.op = "async_play_media"
    /\ r.request.media_type \in {MEDIA_TYPE_CHANNEL, MEDIA_TYPE_PRESET}
    /\ r.request.media_type = MEDIA_TYPE_PRESET =>
          /\ Len(Split(r.request.media_id)) = 2
          /\ ParseInt(Split(r.request.media_id)[2]) # -1

\* The selection the request asks for.
Selection(request) ==
    LET keys == Split(request.media_id)
    IN IF request.media_type = MEDIA_TYPE_PRESET
       THEN [fn |-> "select_preset", arg |-> IntArg(ParseInt(keys[2]) - 1)]
       ELSE [fn |-> "nav_select_item_via_path",
             arg |-> [str |-> Tail(keys), num |-> NoneInt]]

PlayCommands ==
    {"set_power", "set_mode", "select_preset", "nav_select_item_via_path"}

\* C21: an accepted play_media request on an entity that a poll has found
\* available, during which every vendor call answers, issues its commands
\* in a fixed order: power on and then set_mode, if and only if the
\* entity's source differs from the first path segment; then the
\* selection, select_preset(n - 1) for the preset numbered n and
\* nav_select_item_via_path(remaining path) for a channel; then the calls
\* of async_update, which send no further command.
C21_PlayMediaOrder ==
    [][(/\ PlayAccepted(plast')
        /\ plast'.failed = Failures0
        /\ player.state \notin {None, STATE_UNAVAILABLE}) =>
          LET r == plast'
              change == player.source # Split(r.request.media_id)[1]
              k == IF change THEN 2 ELSE 0
              sel == Selection(r.request)
          IN /\ Len(r.calls) >= k + 2
             /\ change =>
                   /\ r.calls[1].fn = "set_power"
                   /\ r.calls[1].arg = StrArg("True")
                   /\ r.calls[2].fn = "set_mode"
             /\ r.calls[k + 1].fn = sel.fn
             /\ r.calls[k + 1].arg = sel.arg
             /\ r.calls[k + 2].fn = "get_power"
             /\ \A i \in (k + 2) .. Len(r.calls) :
                   r.calls[i].fn \notin PlayCommands]_vars

\* C22: every entry the config flow creates (the stored entries have the
\* ids below 2) has in its data every key async_setup_entry reads,
\* webfsapi_url, pin and use_session, and its setup returns True with the
\* client registered under its entry id.
C22_CreatedEntrySetsUp ==
    /\ \A e \in entries :
          e.entry_id >= 2 =>
             {CONF_WEBFSAPI_URL, CONF_PIN, CONF_USE_SESSION}
                 \subseteq DOMAIN e.data
    /\ (last.op = "setup" /\ last.entry >= 2) =>
          /\ last.ret = "True"
          /\ last.entry \in DOMAIN Registry(hass_data)

====
